---- MODULE Spec2Model ----
(***************************************************************************)
(* Model of include/data_base/data_base.h: the typed operations of the     *)
(* DataBase interface (create_table .. average), the lazy registration of  *)
(* a type in get_cls_info / get_class_name, the row marshaller of the      *)
(* typed query and DBQueryResult::get.                                     *)
(*                                                                         *)
(* The SQL compilers (create_tbl_sql ..) and the engine calls (excute_cmd, *)
(* exec_cmd_ret_id, query(sql)) are pure virtual: their results are drawn  *)
(* from small sets.  DBReflector, the per-type db_cls_reflect callback,    *)
(* the member reflectors and str_to_value live in headers that are not     *)
(* part of the source tree at hand; they are modelled from the design      *)
(* document.                                                               *)
(***************************************************************************)
EXTENDS Integers, Sequences, FiniteSets, TLC

VARIABLES class_names, member_reflectors, cbCount, th, abort, db

vars == <<class_names, member_reflectors, cbCount, th, abort, db>>

\* ------------------------------------------------------------------ bounds
\* Rows a cursor of the typed query holds at most (one thread).
MaxRows == 2
\* Rows a cursor holds at most when two threads run.
MaxRowsMT == 1
\* Invocations of one type's callback after which no new operation starts.
MaxReflectCalls == 2
\* Rows the table of the table engine holds at most.
MaxTable == 2
\* The largest id the table engine generates.
MaxId == 2

\* ------------------------------------------------------------------ values
Range(s) == {s[i] : i \in 1..Len(s)}

\* A raw column value: char* of get_col_val, nullptr for SQL NULL.
NullPtr == [isnull |-> TRUE, text |-> <<>>]
Txt(s) == [isnull |-> FALSE, text |-> s]

\* Raw values a row of the typed query may hold.
RowVals == {NullPtr, Txt(<<"7">>), Txt(<<"4", "2">>)}
\* Raw values column 0 of an aggregate's cursor may hold.
AggVals == {NullPtr, Txt(<<"0">>), Txt(<<"1", "2">>), Txt(<<"3", ".", "5">>), Txt(<<"x">>)}

Digits == <<"0", "1", "2", "3", "4", "5", "6", "7", "8", "9">>
IsDigit(c) == \E d \in 1..10 : Digits[d] = c
DigitVal(c) == (CHOOSE d \in 1..10 : Digits[d] = c) - 1

\* Value of the leading run of digits of s, continuing from acc.
RECURSIVE LeadingInt(_, _)
LeadingInt(s, acc) ==
    IF s = <<>> \/ ~IsDigit(Head(s)) THEN acc
    ELSE LeadingInt(Tail(s), acc * 10 + DigitVal(Head(s)))

\* What follows the leading run of digits of s.
RECURSIVE AfterDigits(_)
AfterDigits(s) ==
    IF s = <<>> \/ ~IsDigit(Head(s)) THEN s ELSE AfterDigits(Tail(s))

\* atol: the leading decimal digits, 0 when there are none.
Atol(s) == LeadingInt(s, 0)

\* atof, in tenths: the integer part and the first digit of the fraction.
Atof(s) ==
    LET rest == AfterDigits(s)
        frac == IF Len(rest) >= 2 /\ rest[1] = "." /\ IsDigit(rest[2])
                THEN DigitVal(rest[2]) ELSE 0
    IN  LeadingInt(s, 0) * 10 + frac

\* ------------------------------------------------------------- registry
Types == {"User", "Bare", "NoReflect"}

\* What T::db_cls_reflect records: User registers a table name and two
\* columns, Bare a table name and no column, NoReflect nothing.
ReflectName(ty) == IF ty = "NoReflect" THEN "" ELSE ty
ReflectMembers(ty) == IF ty = "User" THEN <<"id", "name">> ELSE <<>>

find_class_name(ty) == class_names[ty]
get_member_reflectors(ty) == member_reflectors[ty]

\* ----------------------------------------------------------- operations
InfoOps == {"create_table", "query", "insert", "insert_ret_id", "update"}
NameOps == {"drop_table", "remove", "sum", "count", "average"}
TypedOps == InfoOps \cup NameOps

NoRet == [kind |-> "none", status |-> "", has |-> FALSE, val |-> 0, objs |-> <<>>]
StatusRet(s) == [NoRet EXCEPT !.kind = "status", !.status = s]
AbsentRet == [NoRet EXCEPT !.kind = "opt"]
PresentRet(v) == [NoRet EXCEPT !.kind = "opt", !.has = TRUE, !.val = v]
ObjsRet(o) == [NoRet EXCEPT !.kind = "objs", !.objs = o]

NoCursor == [null |-> TRUE, cols |-> <<>>, rows |-> <<>>]

\* T element: every field at its default, none written.
DefaultElement ==
    [id |-> [written |-> FALSE, v |-> 0], name |-> [written |-> FALSE, v |-> <<>>]]

\* No object is passed to the operation.
NoObj == DefaultElement

\* An object whose autoincrement key is unset and whose name is nm.
Named(nm) == [DefaultElement EXCEPT !.name = [written |-> TRUE, v |-> <<nm>>]]

Idle ==
    [pc |-> "idle", op |-> "", ty |-> "", name |-> "", members |-> <<>>,
     sawAbsent |-> FALSE, cbOp |-> 0, compiled |-> <<>>, calls |-> <<>>,
     resp |-> "", cursor |-> NoCursor, deser |-> <<>>, codec |-> <<>>,
     ret |-> NoRet, column |-> "", obj |-> NoObj, cond |-> 0, rowsBefore |-> <<>>]

TypeOK ==
    /\ class_names \in [Types -> {"", "User", "Bare"}]
    /\ \A ty \in Types : member_reflectors[ty] \in {<<>>, <<"id", "name">>}
    /\ cbCount \in [Types -> Nat]
    /\ abort \in {"none", "InvalidColumn", "ClassNotRegistered", "NoMembers",
                  "EmptySql", "SchemaMismatch"}
    /\ db.txn \in {"none", "active"}

\* The engine behind the DataBase: kind "any" answers every call arbitrarily,
\* txn tells whether a transaction is open.
\* rows, nextId: the table of a table engine and the id it generates next.
\* last: the object of the latest successful insert and the id its row got,
\* until another statement changes the table.
NoLast == [id |-> 0, obj |-> NoObj]
AnyEngine == [kind |-> "any", txn |-> "none", rows |-> <<>>, nextId |-> 1, last |-> NoLast]

\* An engine that keeps the rows of table User: it stores the column texts of
\* an insert and returns them unchanged.
TableEngine == [AnyEngine EXCEPT !.kind = "table"]

Init ==
    /\ class_names = [ty \in Types |-> ""]
    /\ member_reflectors = [ty \in Types |-> <<>>]
    /\ cbCount = [ty \in Types |-> 0]
    /\ th = [t \in {1, 2} |-> Idle]
    /\ abort = "none"
    /\ db = AnyEngine

\* As Init, with the table engine behind the DataBase.
InitTable ==
    /\ class_names = [ty \in Types |-> ""]
    /\ member_reflectors = [ty \in Types |-> <<>>]
    /\ cbCount = [ty \in Types |-> 0]
    /\ th = [t \in {1, 2} |-> Idle]
    /\ abort = "none"
    /\ db = TableEngine

Running(t) == abort = "none"

\* STRING_CHECK( column ): a non-null, non-empty string.
STRING_CHECK(column) == column # ""

\* A typed operation is called: sum and average first assert their column.
Start(t) ==
    /\ Running(t)
    /\ th[t].pc = "idle"
    /\ \E op \in TypedOps, ty \in Types, column \in {"", "id"} :
        /\ cbCount[ty] < MaxReflectCalls
        /\ (op \in {"insert", "insert_ret_id"}
              => Len(db.rows) < MaxTable /\ db.nextId <= MaxId)
        /\ (op \notin {"sum", "average"} => column = "id")
        /\ IF op \in {"sum", "average"} /\ ~STRING_CHECK(column)
           THEN /\ abort' = "InvalidColumn"
                /\ th' = [th EXCEPT ![t] = [Idle EXCEPT !.pc = "aborted", !.op = op, !.ty = ty,
                                                        !.column = column]]
           ELSE /\ abort' = abort
                /\ th' = [th EXCEPT ![t] = [Idle EXCEPT !.pc = "find1", !.op = op, !.ty = ty,
                                                        !.column = column]]
    /\ UNCHANGED <<class_names, member_reflectors, cbCount, db>>

\* Mutant of NeedsReflect: the callback is invoked whatever the lookup found.
NeedsReflectAlways(name) == TRUE

\* if( name.empty() ): the type is not in the registry yet.
NeedsReflect(name) == name = ""

\* name = inst.find_class_name( type ), and the test that follows it.
Find1(t) ==
    /\ Running(t)
    /\ th[t].pc = "find1"
    /\ LET name == find_class_name(th[t].ty)
       IN  th' = [th EXCEPT ![t].name = name,
                            ![t].sawAbsent = (name = ""),
                            ![t].pc = IF NeedsReflect(name) THEN "cb_name" ELSE "check"]
    /\ UNCHANGED <<class_names, member_reflectors, cbCount, abort, db>>

\* T::db_cls_reflect() is entered and records the table name.
ReflectClassName(t) ==
    /\ Running(t)
    /\ th[t].pc = "cb_name"
    /\ cbCount' = [cbCount EXCEPT ![th[t].ty] = @ + 1]
    /\ class_names' = [class_names EXCEPT ![th[t].ty] = ReflectName(th[t].ty)]
    /\ th' = [th EXCEPT ![t].cbOp = @ + 1, ![t].pc = "cb_members"]
    /\ UNCHANGED <<member_reflectors, abort, db>>

\* T::db_cls_reflect() records the column descriptors and returns.
ReflectMemberList(t) ==
    /\ Running(t)
    /\ th[t].pc = "cb_members"
    /\ member_reflectors' = [member_reflectors EXCEPT ![th[t].ty] = ReflectMembers(th[t].ty)]
    /\ th' = [th EXCEPT ![t].pc = "find2"]
    /\ UNCHANGED <<class_names, cbCount, abort, db>>

\* The second name = inst.find_class_name( type ), after the callback.
Find2(t) ==
    /\ Running(t)
    /\ th[t].pc = "find2"
    /\ th' = [th EXCEPT ![t].name = find_class_name(th[t].ty), ![t].pc = "check"]
    /\ UNCHANGED <<class_names, member_reflectors, cbCount, abort, db>>

\* get_cls_info: TARO_ASSERT( !name.empty() ), members = ..., and the caller's
\* TARO_ASSERT( !name.empty() && members.size() ).
get_cls_info(t) ==
    /\ Running(t)
    /\ th[t].pc = "check"
    /\ th[t].op \in InfoOps
    /\ LET members == get_member_reflectors(th[t].ty)
       IN  IF th[t].name = ""
           THEN /\ abort' = "ClassNotRegistered"
                /\ th' = [th EXCEPT ![t].pc = "aborted"]
           ELSE IF members = <<>>
           THEN /\ abort' = "NoMembers"
                /\ th' = [th EXCEPT ![t].members = members, ![t].pc = "aborted"]
           ELSE /\ abort' = abort
                /\ th' = [th EXCEPT ![t].members = members, ![t].pc = "body"]
    /\ UNCHANGED <<class_names, member_reflectors, cbCount, db>>

\* get_class_name: TARO_ASSERT( !name.empty() ); return name.
get_class_name(t) ==
    /\ Running(t)
    /\ th[t].pc = "check"
    /\ th[t].op \in NameOps
    /\ IF th[t].name = ""
       THEN /\ abort' = "ClassNotRegistered"
            /\ th' = [th EXCEPT ![t].pc = "aborted"]
       ELSE /\ abort' = abort
            /\ th' = [th EXCEPT ![t].pc = "body"]
    /\ UNCHANGED <<class_names, member_reflectors, cbCount, db>>

\* The operation has returned to its caller, which goes on.
Return(t) ==
    /\ Running(t)
    /\ th[t].pc = "done"
    /\ th' = [th EXCEPT ![t] = Idle]
    /\ UNCHANGED <<class_names, member_reflectors, cbCount, abort, db>>

\* ------------------------------------------------------------ SQL compilers
\* Names an object passed to insert or update may carry, and conditions a
\* caller may pass (0: the empty DBCond, k: id = k).  An engine of kind "any"
\* does not look into the text, so one input stands for all there.
ObjNames == IF db.kind = "table" THEN {"a", "b"} ELSE {"a"}
Conds == IF db.kind = "table" THEN 0..MaxId ELSE {0}

\* A statement: its kind, its table, its condition and its argument (the name
\* literal of insert and update, the column of sum and average).
Stmt(op, name, cond, arg) == [op |-> op, name |-> name, cond |-> cond, arg |-> arg]

\* An empty condition adds no WHERE clause.
CondText(cond) == IF cond = 0 THEN "" ELSE " WHERE id = " \o Digits[cond + 1]

\* The SQL text of a statement.
StmtText(s) ==
    CASE s.op = "create" -> "CREATE TABLE " \o s.name
      [] s.op = "drop" -> "drop table " \o s.name
      [] s.op = "select" -> "SELECT * FROM " \o s.name \o CondText(s.cond)
      [] s.op = "insert" -> "INSERT INTO " \o s.name \o " (name) VALUES ('" \o s.arg \o "')"
      [] s.op = "update" ->
            "UPDATE " \o s.name \o " SET name = '" \o s.arg \o "'" \o CondText(s.cond)
      [] s.op = "delete" -> "DELETE FROM " \o s.name \o CondText(s.cond)
      [] s.op = "sum" -> "SELECT SUM(" \o s.arg \o ") FROM " \o s.name \o CondText(s.cond)
      [] s.op = "count" -> "SELECT COUNT(*) FROM " \o s.name \o CondText(s.cond)
      [] s.op = "avg" -> "SELECT AVG(" \o s.arg \o ") FROM " \o s.name \o CondText(s.cond)

\* The pure virtual compilers: each returns empty text or its statement.  The
\* autoincrement key of obj is unset and is left out of the insert.
create_tbl_sql(name) == {"", StmtText(Stmt("create", name, 0, ""))}
query_tbl_sql(name, cond) == {"", StmtText(Stmt("select", name, cond, ""))}
insert_tbl_sql(obj, name) == {"", StmtText(Stmt("insert", name, 0, obj.name.v[1]))}
update_tbl_sql(obj, name, cond) == {"", StmtText(Stmt("update", name, cond, obj.name.v[1]))}
remove_tbl_sql(name, cond) == {"", StmtText(Stmt("delete", name, cond, ""))}
sum_tbl_sql(name, column, cond) == {"", StmtText(Stmt("sum", name, cond, column))}
count_tbl_sql(name, cond) == {"", StmtText(Stmt("count", name, cond, ""))}
average_tbl_sql(name, column, cond) == {"", StmtText(Stmt("avg", name, cond, column))}

\* ------------------------------------------------------------------ engine
\* Status values excute_cmd and exec_cmd_ret_id may report.
EngineStatus == {"TARO_OK", "TARO_ERR_FAILED", "TARO_ERR_INVALID_ARG"}
\* Ids exec_cmd_ret_id may generate.
EngineIds == {1, 2}

\* Column lists a cursor of the typed query may report.
ColLists == {<<>>, <<"id">>, <<"id", "name">>, <<"name", "id">>,
             <<"id", "extra">>, <<"extra", "id">>}

\* Rows of width w, at most maxRows of them.
RowsOf(w, maxRows) == UNION {[1..k -> [1..w -> RowVals]] : k \in 0..maxRows}

\* Cursors query(sql) may return for the typed query.
Cursors(maxRows) ==
    UNION {{[null |-> FALSE, cols |-> c, rows |-> r] : r \in RowsOf(Len(c), maxRows)} :
           c \in ColLists}

\* Cursors query(sql) may return for an aggregate: one row, one column.
AggCursors == {[null |-> FALSE, cols |-> <<"agg">>, rows |-> <<<<v>>>>] : v \in AggVals}

\* get_col_val( col ) with the cursor on row pos; col counts from 0.  On a
\* cursor that holds no row the driver's answer is not determined: stray.
get_col_val(cur, pos, col, stray) ==
    IF pos <= Len(cur.rows) THEN cur.rows[pos][col + 1] ELSE stray[col + 1]

\* Mutant of next: the last row is not reported.
next_stops_early(cur, pos) == pos + 1 < Len(cur.rows)

\* next(): whether a further row exists (the cursor then stands on it).
next(cur, pos) == pos + 1 <= Len(cur.rows)

\* ------------------------------------------------------------ table engine
\* The decimal text of n.
RECURSIVE IntToText(_)
IntToText(n) ==
    IF n < 10 THEN <<Digits[n + 1]>> ELSE Append(IntToText(n \div 10), Digits[(n % 10) + 1])

\* The statements the table engine understands, and the one a text stands for.
Stmts ==
    {Stmt(o, n, c, a) :
        o \in {"create", "drop", "select", "insert", "update", "delete", "sum", "count", "avg"},
        n \in {"User"}, c \in 0..MaxId, a \in {"", "a", "b", "id"}}
Understood(cmd) == \E s \in Stmts : StmtText(s) = cmd
Parse(cmd) == CHOOSE s \in Stmts : StmtText(s) = cmd

\* Whether a stored row satisfies the condition.
Matches(row, cond) == cond = 0 \/ row.id = Txt(<<Digits[cond + 1]>>)

RECURSIVE Matching(_, _)
Matching(rows, cond) ==
    IF rows = <<>> THEN <<>>
    ELSE IF Matches(Head(rows), cond) THEN <<Head(rows)>> \o Matching(Tail(rows), cond)
    ELSE Matching(Tail(rows), cond)

RECURSIVE NotMatching(_, _)
NotMatching(rows, cond) ==
    IF rows = <<>> THEN <<>>
    ELSE IF Matches(Head(rows), cond) THEN NotMatching(Tail(rows), cond)
    ELSE <<Head(rows)>> \o NotMatching(Tail(rows), cond)

RECURSIVE SumIds(_)
SumIds(rows) == IF rows = <<>> THEN 0 ELSE Atol(Head(rows).id.text) + SumIds(Tail(rows))

\* The engine's state after it has executed the statement cmd stands for.
TableAfter(cmd) ==
    LET s == Parse(cmd)
    IN  CASE s.op = "insert" ->
                [db EXCEPT !.rows = Append(@, [id |-> Txt(IntToText(db.nextId)),
                                               name |-> Txt(<<s.arg>>)]),
                           !.nextId = @ + 1]
          [] s.op = "update" ->
                [db EXCEPT !.rows = [i \in 1..Len(db.rows) |->
                                       IF Matches(db.rows[i], s.cond)
                                       THEN [db.rows[i] EXCEPT !.name = Txt(<<s.arg>>)]
                                       ELSE db.rows[i]]]
          [] s.op = "delete" -> [db EXCEPT !.rows = NotMatching(db.rows, s.cond)]
          [] s.op = "drop" -> [db EXCEPT !.rows = <<>>]
          [] OTHER -> db

\* The cursor of the statement cmd stands for: the matching rows of a select,
\* one row with one value for an aggregate (NULL for SUM and AVG of no row).
TableCursor(cmd) ==
    LET s == Parse(cmd)
        hit == Matching(db.rows, s.cond)
        one(v) == [null |-> FALSE, cols |-> <<"agg">>, rows |-> <<<<v>>>>]
    IN  CASE s.op = "count" -> one(Txt(IntToText(Len(hit))))
          [] s.op = "sum" -> one(IF hit = <<>> THEN NullPtr ELSE Txt(IntToText(SumIds(hit))))
          [] s.op = "avg" ->
                one(IF hit = <<>> THEN NullPtr
                    ELSE LET q == (10 * SumIds(hit)) \div Len(hit)
                         IN  Txt(IntToText(q \div 10) \o <<".", Digits[(q % 10) + 1]>>))
          [] OTHER -> [null |-> FALSE, cols |-> <<"id", "name">>,
                       rows |-> [i \in 1..Len(hit) |-> <<hit[i].id, hit[i].name>>]]

\* What a failed call leaves: a non-success status, the engine as it was.
Failures == {[st |-> x, db |-> db, id |-> 0] : x \in EngineStatus \ {"TARO_OK"}}

\* excute_cmd( sql ): the status and the engine's state after the call.
excute_cmd(cmd) ==
    IF db.kind = "any" THEN {[st |-> x, db |-> db, id |-> 0] : x \in EngineStatus}
    ELSE Failures \cup (IF Understood(cmd)
                        THEN {[st |-> "TARO_OK", db |-> TableAfter(cmd), id |-> 0]}
                        ELSE {})

\* exec_cmd_ret_id( sql, id ): as excute_cmd, with the id the row got.
exec_cmd_ret_id(cmd) ==
    IF db.kind = "any"
    THEN {[st |-> x, db |-> db, id |-> i] : x \in EngineStatus, i \in EngineIds}
    ELSE Failures \cup (IF Understood(cmd)
                        THEN {[st |-> "TARO_OK", db |-> TableAfter(cmd), id |-> db.nextId]}
                        ELSE {})

\* query( sql ) of the typed query: no cursor, or the cursor of the rows.
query_rows(cmd, maxRows) ==
    {NoCursor} \cup
    (IF db.kind = "any" THEN Cursors(maxRows)
     ELSE IF Understood(cmd) THEN {TableCursor(cmd)} ELSE {})

\* query( sql ) of an aggregate: no cursor, or the cursor of the value.
query_value(cmd) ==
    {NoCursor} \cup
    (IF db.kind = "any" THEN AggCursors
     ELSE IF Understood(cmd) THEN {TableCursor(cmd)} ELSE {})

\* The engine after a call of a typed operation: out.db, with the latest
\* insert remembered until a statement changes the table.
Engine(op, obj, out) ==
    IF db.kind = "any" \/ out.st # "TARO_OK" THEN out.db
    ELSE IF op \in {"insert", "insert_ret_id"}
    THEN [out.db EXCEPT !.last = [id |-> db.nextId, obj |-> obj]]
    ELSE IF op \in {"update", "remove", "drop_table"} THEN [out.db EXCEPT !.last = NoLast]
    ELSE out.db

\* -------------------------------------------------------------- marshaller
\* str_to_value<T>: an integer field parses its text, a text field copies it.
str_to_value(kind, text) == IF kind = "int" THEN Atol(text) ELSE text

FieldKind(col) == IF col = "id" THEN "int" ELSE "text"

\* ClsMemberReflector::deserialize( raw, &element ): the field is written from
\* the text; a null text leaves it as it is.
deserialize(col, raw, element) ==
    IF raw.isnull THEN element
    ELSE [element EXCEPT ![col] = [written |-> TRUE, v |-> str_to_value(FieldKind(col), raw.text)]]

\* Mutant of FindMember: the first member is taken whatever its name.
FindMemberFirst(members, col) == IF members = <<>> THEN 0 ELSE 1

\* std::find_if over members by get_name() == cols[i]: the index of the first
\* match, 0 for members.end().
FindMember(members, col) ==
    IF \E k \in 1..Len(members) : members[k] = col
    THEN CHOOSE k \in 1..Len(members) :
            members[k] = col /\ \A j \in 1..(k - 1) : members[j] # col
    ELSE 0

\* TARO_ASSERT( iter != members.end() ): whether the assertion fails.
SchemaMismatch(iter) == iter = 0

\* Mutant of MarshalRow: a column without a member is skipped, not asserted.
RECURSIVE MarshalRowSkipping(_, _, _, _, _, _, _)
MarshalRowSkipping(members, cur, pos, stray, i, element, deser) ==
    IF i >= Len(cur.cols) THEN [ok |-> TRUE, element |-> element, deser |-> deser]
    ELSE LET iter == FindMember(members, cur.cols[i + 1])
             raw == get_col_val(cur, pos, i, stray)
         IN  IF SchemaMismatch(iter)
             THEN MarshalRowSkipping(members, cur, pos, stray, i + 1, element, deser)
             ELSE MarshalRowSkipping(members, cur, pos, stray, i + 1,
                                     deserialize(members[iter], raw, element),
                                     Append(deser, [col |-> members[iter], raw |-> raw]))

\* The for loop over cols for one row, from column i (0-based) on:
\* [ok, element, deser], ok FALSE when the assertion fails, deser the
\* deserialize calls made.
RECURSIVE MarshalRow(_, _, _, _, _, _, _)
MarshalRow(members, cur, pos, stray, i, element, deser) ==
    IF i >= Len(cur.cols) THEN [ok |-> TRUE, element |-> element, deser |-> deser]
    ELSE LET iter == FindMember(members, cur.cols[i + 1])
             raw == get_col_val(cur, pos, i, stray)
         IN  IF SchemaMismatch(iter)
             THEN [ok |-> FALSE, element |-> element, deser |-> deser]
             ELSE MarshalRow(members, cur, pos, stray, i + 1,
                             deserialize(members[iter], raw, element),
                             Append(deser, [col |-> members[iter], raw |-> raw]))

\* Mutant of MarshalRows: element is declared outside the loop, so a row
\* starts from the object of the row before it.
RECURSIVE MarshalRowsCarry(_, _, _, _, _, _)
MarshalRowsCarry(members, cur, pos, stray, objs, deser) ==
    LET start == IF objs = <<>> THEN DefaultElement ELSE objs[Len(objs)]
        one == MarshalRow(members, cur, pos, stray, 0, start, deser)
    IN  IF ~one.ok THEN [ok |-> FALSE, objs |-> objs, deser |-> one.deser]
        ELSE IF next(cur, pos)
        THEN MarshalRowsCarry(members, cur, pos + 1, stray, Append(objs, one.element), one.deser)
        ELSE [ok |-> TRUE, objs |-> Append(objs, one.element), deser |-> one.deser]

\* do { T element; ...; query_result.emplace_back( element ); } while( next() ):
\* [ok, objs, deser] from the row the cursor stands on.
RECURSIVE MarshalRows(_, _, _, _, _, _)
MarshalRows(members, cur, pos, stray, objs, deser) ==
    LET one == MarshalRow(members, cur, pos, stray, 0, DefaultElement, deser)
    IN  IF ~one.ok THEN [ok |-> FALSE, objs |-> objs, deser |-> one.deser]
        ELSE IF next(cur, pos)
        THEN MarshalRows(members, cur, pos + 1, stray, Append(objs, one.element), one.deser)
        ELSE [ok |-> TRUE, objs |-> Append(objs, one.element), deser |-> one.deser]

\* ---------------------------------------------------------- typed operations
\* Mutant of CmdEmpty: the empty text is not detected.
CmdEmptyNever(cmd) == FALSE

\* cmd.empty(): the compiler could not compose the statement.
CmdEmpty(cmd) == cmd = ""

\* Mutant of EngineFailed: only TARO_ERR_FAILED counts as a failure.
EngineFailedOnlyFailed(st) == st = "TARO_ERR_FAILED"

\* TARO_OK != excute_cmd( ... ): the engine reports non-success.
EngineFailed(st) == st # "TARO_OK"

EngineCall(fn, sql) == [fn |-> fn, sql |-> sql]

Body(t, op) == Running(t) /\ th[t].pc = "body" /\ th[t].op = op

\* Thread t's record with the arguments of the call noted.
Args(t, obj, cond) == [th[t] EXCEPT !.obj = obj, !.cond = cond, !.rowsBefore = db.rows]

\* The operation returns ret without having called the engine.
ReturnEarly(t, me, compiled, ret) ==
    /\ th' = [th EXCEPT ![t] = [me EXCEPT !.compiled = compiled, !.ret = ret, !.pc = "done"]]
    /\ UNCHANGED <<class_names, member_reflectors, cbCount, abort, db>>

\* A fatal assertion of thread t ends the process.
Fatal(t, me, compiled, why) ==
    /\ th' = [th EXCEPT ![t] = [me EXCEPT !.compiled = compiled, !.pc = "aborted"]]
    /\ abort' = why
    /\ UNCHANGED <<class_names, member_reflectors, cbCount, db>>

\* Mutant of RunCmd: a failed statement is followed by a rollback.
RunCmdRollback(t, me, compiled, cmd) ==
    /\ \E out \in excute_cmd(cmd) :
        /\ th' = [th EXCEPT ![t] =
                    [me EXCEPT !.compiled = compiled,
                               !.calls = IF EngineFailed(out.st)
                                         THEN <<EngineCall("excute_cmd", cmd),
                                                EngineCall("rollback_transaction", "")>>
                                         ELSE <<EngineCall("excute_cmd", cmd)>>,
                               !.resp = out.st,
                               !.ret = StatusRet(IF EngineFailed(out.st) THEN "TARO_ERR_FAILED"
                                                 ELSE "TARO_OK"),
                               !.pc = "done"]]
        /\ db' = IF EngineFailed(out.st) THEN [db EXCEPT !.txn = "none"]
                 ELSE Engine(me.op, me.obj, out)
    /\ UNCHANGED <<class_names, member_reflectors, cbCount, abort>>

\* excute_cmd( cmd.c_str() ) and the status the operation returns for it.
RunCmd(t, me, compiled, cmd) ==
    /\ \E out \in excute_cmd(cmd) :
        /\ th' = [th EXCEPT ![t] =
                    [me EXCEPT !.compiled = compiled,
                               !.calls = <<EngineCall("excute_cmd", cmd)>>,
                               !.resp = out.st,
                               !.ret = StatusRet(IF EngineFailed(out.st) THEN "TARO_ERR_FAILED"
                                                 ELSE "TARO_OK"),
                               !.pc = "done"]]
        /\ db' = Engine(me.op, me.obj, out)
    /\ UNCHANGED <<class_names, member_reflectors, cbCount, abort>>

create_table(t) ==
    /\ Body(t, "create_table")
    /\ \E cmd \in create_tbl_sql(th[t].name) :
        IF CmdEmpty(cmd)
        THEN ReturnEarly(t, Args(t, NoObj, 0), <<cmd>>, StatusRet("TARO_ERR_INVALID_ARG"))
        ELSE RunCmd(t, Args(t, NoObj, 0), <<cmd>>, cmd)

drop_table(t) ==
    /\ Body(t, "drop_table")
    /\ RunCmd(t, Args(t, NoObj, 0), <<>>, "drop table " \o th[t].name)

insert(t) ==
    /\ Body(t, "insert")
    /\ \E nm \in ObjNames : \E cmd \in insert_tbl_sql(Named(nm), th[t].name) :
        IF CmdEmpty(cmd)
        THEN ReturnEarly(t, Args(t, Named(nm), 0), <<cmd>>, StatusRet("TARO_ERR_INVALID_ARG"))
        ELSE RunCmd(t, Args(t, Named(nm), 0), <<cmd>>, cmd)

insert_ret_id(t) ==
    /\ Body(t, "insert_ret_id")
    /\ \E nm \in ObjNames : \E cmd \in insert_tbl_sql(Named(nm), th[t].name) :
        IF CmdEmpty(cmd) THEN ReturnEarly(t, Args(t, Named(nm), 0), <<cmd>>, AbsentRet)
        ELSE /\ \E out \in exec_cmd_ret_id(cmd) :
                 /\ th' = [th EXCEPT ![t] =
                             [Args(t, Named(nm), 0) EXCEPT
                                 !.compiled = <<cmd>>,
                                 !.calls = <<EngineCall("exec_cmd_ret_id", cmd)>>,
                                 !.resp = out.st,
                                 !.ret = IF EngineFailed(out.st) THEN AbsentRet
                                         ELSE PresentRet(out.id),
                                 !.pc = "done"]]
                 /\ db' = Engine("insert_ret_id", Named(nm), out)
             /\ UNCHANGED <<class_names, member_reflectors, cbCount, abort>>

update(t) ==
    /\ Body(t, "update")
    /\ \E nm \in ObjNames, cond \in Conds :
       \E cmd \in update_tbl_sql(Named(nm), th[t].name, cond) :
        IF CmdEmpty(cmd)
        THEN ReturnEarly(t, Args(t, Named(nm), cond), <<cmd>>, StatusRet("TARO_ERR_INVALID_ARG"))
        ELSE RunCmd(t, Args(t, Named(nm), cond), <<cmd>>, cmd)

\* Mutant of remove: an empty condition is refused before the compiler runs.
remove_guarded(t) ==
    /\ Body(t, "remove")
    /\ \E cond \in Conds : \E cmd \in remove_tbl_sql(th[t].name, cond) :
        IF cond = 0 \/ CmdEmpty(cmd)
        THEN ReturnEarly(t, Args(t, NoObj, cond), <<cmd>>, StatusRet("TARO_ERR_INVALID_ARG"))
        ELSE RunCmd(t, Args(t, NoObj, cond), <<cmd>>, cmd)

remove(t) ==
    /\ Body(t, "remove")
    /\ \E cond \in Conds : \E cmd \in remove_tbl_sql(th[t].name, cond) :
        IF CmdEmpty(cmd)
        THEN ReturnEarly(t, Args(t, NoObj, cond), <<cmd>>, StatusRet("TARO_ERR_INVALID_ARG"))
        ELSE RunCmd(t, Args(t, NoObj, cond), <<cmd>>, cmd)

\* The typed query: compile, query( cmd ), get_columns(), the marshalling loop.
query(t, maxRows) ==
    /\ Body(t, "query")
    /\ \E cond \in Conds : \E cmd \in query_tbl_sql(th[t].name, cond) :
        IF CmdEmpty(cmd) THEN ReturnEarly(t, Args(t, NoObj, cond), <<cmd>>, ObjsRet(<<>>))
        ELSE \E result \in query_rows(cmd, maxRows) :
             \E stray \in (IF result.rows = <<>> THEN [1..Len(result.cols) -> RowVals]
                           ELSE {<<>>}) :
             LET called == [Args(t, NoObj, cond) EXCEPT
                               !.compiled = <<cmd>>,
                               !.calls = <<EngineCall("query", cmd)>>,
                               !.resp = IF result.null THEN "null" ELSE "cursor",
                               !.cursor = result]
                 m == MarshalRows(th[t].members, result, 1, stray, <<>>, <<>>)
             IN  IF result.null \/ result.cols = <<>>
                 THEN /\ th' = [th EXCEPT ![t] = [called EXCEPT !.ret = ObjsRet(<<>>),
                                                                !.pc = "done"]]
                      /\ UNCHANGED <<class_names, member_reflectors, cbCount, abort, db>>
                 ELSE IF ~m.ok
                 THEN /\ th' = [th EXCEPT ![t] = [called EXCEPT !.deser = m.deser,
                                                                !.pc = "aborted"]]
                      /\ abort' = "SchemaMismatch"
                      /\ UNCHANGED <<class_names, member_reflectors, cbCount, db>>
                 ELSE /\ th' = [th EXCEPT ![t] = [called EXCEPT !.deser = m.deser,
                                                                !.ret = ObjsRet(m.objs),
                                                                !.pc = "done"]]
                      /\ UNCHANGED <<class_names, member_reflectors, cbCount, abort, db>>

\* Mutant of AggAbsent: column 0 is not tested for NULL.
AggAbsentNoCursorOnly(result) == result.null

\* result == nullptr || result->get_col_val( 0 ) == nullptr
AggAbsent(result) == result.null \/ get_col_val(result, 1, 0, <<>>).isnull

\* atof( ... ) of sum and average, atol( ... ) of count.
Parsed(parse, text) == IF parse = "atol" THEN Atol(text) ELSE Atof(text)

\* sum, count and average after their SQL is composed: the assertion on the
\* text, query( sql ), and the value parsed from column 0.
Aggregate(t, me, sql, parse) ==
    IF CmdEmpty(sql) THEN Fatal(t, me, <<sql>>, "EmptySql")
    ELSE /\ \E result \in query_value(sql) :
             th' = [th EXCEPT ![t] =
                      [me EXCEPT !.compiled = <<sql>>,
                                 !.calls = <<EngineCall("query", sql)>>,
                                 !.resp = IF result.null THEN "null" ELSE "cursor",
                                 !.cursor = result,
                                 !.ret = IF AggAbsent(result) THEN AbsentRet
                                         ELSE PresentRet(Parsed(parse,
                                                  get_col_val(result, 1, 0, <<>>).text)),
                                 !.pc = "done"]]
         /\ UNCHANGED <<class_names, member_reflectors, cbCount, abort, db>>

sum(t) ==
    /\ Body(t, "sum")
    /\ \E cond \in Conds : \E sql \in sum_tbl_sql(th[t].name, th[t].column, cond) :
        Aggregate(t, Args(t, NoObj, cond), sql, "atof")

count(t) ==
    /\ Body(t, "count")
    /\ \E cond \in Conds : \E sql \in count_tbl_sql(th[t].name, cond) :
        Aggregate(t, Args(t, NoObj, cond), sql, "atol")

average(t) ==
    /\ Body(t, "average")
    /\ \E cond \in Conds : \E sql \in average_tbl_sql(th[t].name, th[t].column, cond) :
        Aggregate(t, Args(t, NoObj, cond), sql, "atof")

\* Mutant of IsNullPtr: the null test is missing.
IsNullPtrNever(ptr) == FALSE

\* nullptr == ptr in DBQueryResult::get: the column is SQL NULL.
IsNullPtr(ptr) == ptr.isnull

\* DBQueryResult::get<T>( col ) on a cursor whose column col holds ptr.
get(t) ==
    /\ Running(t)
    /\ th[t].pc = "idle"
    /\ \E ptr \in RowVals \cup AggVals :
        th' = [th EXCEPT ![t] =
                 [Idle EXCEPT !.pc = "done", !.op = "get",
                              !.cursor = [null |-> FALSE, cols |-> <<"id">>, rows |-> <<<<ptr>>>>],
                              !.codec = IF IsNullPtr(ptr) THEN <<>> ELSE <<ptr>>,
                              !.ret = IF IsNullPtr(ptr) THEN AbsentRet
                                      ELSE PresentRet(str_to_value("int", ptr.text))]]
    /\ UNCHANGED <<class_names, member_reflectors, cbCount, abort, db>>

\* ------------------------------------------------------------ transactions
\* The caller of thread t calls fn, one of the three transaction functions of
\* the engine; a successful call leaves the transaction state at after.
TransactionCall(t, fn, after) ==
    /\ Running(t)
    /\ th[t].pc = "idle"
    /\ \E st \in EngineStatus :
        /\ th' = [th EXCEPT ![t] = [Idle EXCEPT !.pc = "done", !.op = fn,
                                                !.calls = <<EngineCall(fn, "")>>,
                                                !.resp = st,
                                                !.ret = StatusRet(st)]]
        /\ db' = [db EXCEPT !.txn = IF st = "TARO_OK" THEN after ELSE @]
    /\ UNCHANGED <<class_names, member_reflectors, cbCount, abort>>

begin_transaction(t) == TransactionCall(t, "begin_transaction", "active")

commit_transaction(t) == TransactionCall(t, "commit_transaction", "none")

rollback_transaction(t) == TransactionCall(t, "rollback_transaction", "none")

\* ----------------------------------------------------------- specifications
Step(t, maxRows) ==
    \/ Start(t)
    \/ Find1(t)
    \/ ReflectClassName(t)
    \/ ReflectMemberList(t)
    \/ Find2(t)
    \/ get_cls_info(t)
    \/ get_class_name(t)
    \/ create_table(t)
    \/ drop_table(t)
    \/ query(t, maxRows)
    \/ insert(t)
    \/ insert_ret_id(t)
    \/ update(t)
    \/ remove(t)
    \/ sum(t)
    \/ count(t)
    \/ average(t)
    \/ get(t)
    \/ begin_transaction(t)
    \/ commit_transaction(t)
    \/ rollback_transaction(t)
    \/ Return(t)

\* One thread uses the database.
Next == Step(1, MaxRows)

Spec == Init /\ [][Next]_vars

\* Two threads use the database.
NextMT == \E t \in {1, 2} : Step(t, MaxRowsMT)

SpecMT == Init /\ [][NextMT]_vars

\* One thread over an engine that keeps the rows of table User.
SpecTable == InitTable /\ [][Next]_vars

\* ------------------------------------------------------------------ claims
Threads == {1, 2}

\* C1: when two threads race on the first typed operation on the unregistered
\* type User, its callback db_cls_reflect runs at most once in total.
C1_ReflectAtMostOnce == cbCount["User"] <= 1

CompiledOps == {"create_table", "query", "insert", "insert_ret_id", "update", "remove"}

\* The value an operation returns for a statement that could not be composed.
InvalidArgRet(op) ==
    IF op = "insert_ret_id" THEN AbsentRet
    ELSE IF op = "query" THEN ObjsRet(<<>>)
    ELSE StatusRet("TARO_ERR_INVALID_ARG")

\* C2: when the compiler returns empty text, create_table, query, insert,
\* insert_ret_id, update and remove return their error value and make no
\* engine call.
C2_EmptySqlNoEngine ==
    \A t \in Threads :
        (th[t].op \in CompiledOps /\ th[t].compiled = <<"">>)
            => /\ th[t].pc = "done"
               /\ th[t].calls = <<>>
               /\ th[t].ret = InvalidArgRet(th[t].op)

C2_Witness ==
    \E t \in Threads :
        /\ th[t].op = "insert_ret_id"
        /\ th[t].compiled = <<"">>
        /\ th[t].pc = "done"
        /\ th[t].ret = AbsentRet

\* The value an operation returns when its engine call did not succeed.
FailedRet(op) ==
    IF op \in {"insert_ret_id", "sum", "count", "average"} THEN AbsentRet
    ELSE IF op = "query" THEN ObjsRet(<<>>)
    ELSE StatusRet("TARO_ERR_FAILED")

\* C3: every typed operation calls the engine at most once, and when that
\* call reports non-success (a status other than TARO_OK, no cursor) the
\* operation returns TARO_ERR_FAILED or an absent or empty result.
C3_OneCallNoRetry ==
    \A t \in Threads :
        /\ Len(th[t].calls) <= 1
        /\ (th[t].op \in TypedOps /\ Len(th[t].calls) = 1
              /\ th[t].resp \notin {"TARO_OK", "cursor"})
            => /\ th[t].pc = "done"
               /\ th[t].ret = FailedRet(th[t].op)

C3_Witness ==
    \E t \in Threads :
        /\ th[t].op = "insert"
        /\ Len(th[t].calls) = 1
        /\ th[t].resp = "TARO_ERR_INVALID_ARG"
        /\ th[t].ret = StatusRet("TARO_ERR_FAILED")

\* The field col of the object a row stands for: written from the last
\* non-null value the row holds under that column name, else at its default.
FieldOf(cols, row, col) ==
    LET W == {k \in 1..Len(cols) : cols[k] = col /\ ~row[k].isnull}
    IN  IF W = {} THEN DefaultElement[col]
        ELSE LET k == CHOOSE x \in W : \A y \in W : y <= x
             IN  [written |-> TRUE,
                  v |-> IF col = "id" THEN
                            (IF row[k].text = <<"7">> THEN 7 ELSE 42)
                        ELSE row[k].text]

ObjectOf(cols, row) == [id |-> FieldOf(cols, row, "id"), name |-> FieldOf(cols, row, "name")]

QueryReturned(t) ==
    /\ th[t].op = "query"
    /\ th[t].pc = "done"
    /\ ~th[t].cursor.null
    /\ th[t].cursor.cols # <<>>

\* C4: a typed query whose cursor yields rows r1..rn, n >= 1, returns exactly
\* n objects, the i-th built from ri: in cursor order, none skipped, equal
\* rows not merged.
C4_RowsInCursorOrder ==
    \A t \in Threads :
        (QueryReturned(t) /\ Len(th[t].cursor.rows) >= 1)
            => /\ Len(th[t].ret.objs) = Len(th[t].cursor.rows)
               /\ \A i \in 1..Len(th[t].cursor.rows) :
                    th[t].ret.objs[i] = ObjectOf(th[t].cursor.cols, th[t].cursor.rows[i])

C4_Witness ==
    \E t \in Threads :
        /\ QueryReturned(t)
        /\ th[t].cursor.cols = <<"name", "id">>
        /\ th[t].cursor.rows = <<<<Txt(<<"7">>), Txt(<<"4", "2">>)>>,
                                 <<Txt(<<"7">>), Txt(<<"7">>)>>>>
        /\ Len(th[t].ret.objs) = 2
        /\ th[t].ret.objs[1].id.v = 42
        /\ th[t].ret.objs[2].id.v = 7

\* The cursor of thread t's typed query reports a column no member is named as.
UnmatchedColumn(t) ==
    /\ th[t].op = "query"
    /\ ~th[t].cursor.null
    /\ \E k \in 1..Len(th[t].cursor.cols) :
         th[t].cursor.cols[k] \notin Range(th[t].members)

\* C5: a typed query whose cursor reports a column without a member of the
\* same name ends in the fatal assertion; nothing is returned to the caller.
C5_SchemaMismatchFatal ==
    \A t \in Threads :
        UnmatchedColumn(t)
            => /\ th[t].pc = "aborted"
               /\ abort = "SchemaMismatch"
               /\ th[t].ret = NoRet

C5_Witness ==
    \E t \in Threads :
        /\ UnmatchedColumn(t)
        /\ th[t].cursor.cols = <<"id", "extra">>
        /\ Len(th[t].cursor.rows) = 2
        /\ Len(th[t].deser) = 1
        /\ abort = "SchemaMismatch"

\* C6: every SQL text a typed operation (drop_table included) hands to the
\* engine is a text a compiler function returned during that operation.
C6_OnlyCompiledSql ==
    \A t \in Threads :
        \A i \in 1..Len(th[t].calls) : th[t].calls[i].sql \in Range(th[t].compiled)

\* C7: in the typed query the member's deserialize is not invoked for a column
\* whose raw value is SQL NULL, and the field keeps its default.
C7_NullNotDeserialized ==
    \A t \in Threads :
        th[t].op = "query"
            => /\ \A i \in 1..Len(th[t].deser) : ~th[t].deser[i].raw.isnull
               /\ QueryReturned(t)
                    => \A i \in 1..Len(th[t].cursor.rows), k \in 1..Len(th[t].cursor.cols) :
                         th[t].cursor.rows[i][k].isnull
                            => th[t].ret.objs[i][th[t].cursor.cols[k]]
                                 = DefaultElement[th[t].cursor.cols[k]]

\* C8: DBQueryResult::get returns an absent Optional without calling
\* str_to_value when the column is NULL; the codec is called only for a
\* non-NULL raw value.
C8_GetNullAbsent ==
    \A t \in Threads :
        (th[t].op = "get" /\ th[t].pc = "done")
            => LET ptr == th[t].cursor.rows[1][1]
               IN  /\ ptr.isnull => (th[t].ret = AbsentRet /\ th[t].codec = <<>>)
                   /\ \A i \in 1..Len(th[t].codec) :
                        ~th[t].codec[i].isnull /\ th[t].codec[i] = ptr
                   /\ ~ptr.isnull => th[t].ret.has

C8_Witness ==
    \E t \in Threads :
        /\ th[t].op = "get"
        /\ th[t].pc = "done"
        /\ th[t].cursor.rows[1][1].isnull
        /\ th[t].ret = AbsentRet
        /\ th[t].codec = <<>>

AggOps == {"sum", "count", "average"}

\* What atol (count) and atof in tenths (sum, average) make of a column text.
ExpectedAgg(op, text) ==
    CASE text = <<"0">> -> 0
      [] text = <<"1", "2">> -> IF op = "count" THEN 12 ELSE 120
      [] text = <<"3", ".", "5">> -> IF op = "count" THEN 3 ELSE 35
      [] OTHER -> 0

\* C9: sum, average and count return absent exactly when the engine returns no
\* cursor or column 0 is NULL, and otherwise the parsed value of column 0:
\* COUNT's "0" is a present 0, the NULL of SUM and AVG is absent.
C9_AggregateAbsence ==
    \A t \in Threads :
        (th[t].op \in AggOps /\ th[t].pc = "done")
            => LET cur == th[t].cursor
                   null0 == cur.null \/ cur.rows[1][1].isnull
               IN  /\ th[t].ret.kind = "opt"
                   /\ th[t].ret.has <=> ~null0
                   /\ ~null0 => th[t].ret.val = ExpectedAgg(th[t].op, cur.rows[1][1].text)
                   /\ (th[t].op = "count" /\ ~null0 /\ cur.rows[1][1].text = <<"0">>)
                        => th[t].ret = PresentRet(0)

C9_Witness ==
    \E t \in Threads :
        /\ th[t].op = "count"
        /\ th[t].pc = "done"
        /\ ~th[t].cursor.null
        /\ th[t].cursor.rows[1][1] = Txt(<<"0">>)
        /\ th[t].ret = PresentRet(0)

\* The state part of C10: the callback ran in an operation only if that
\* operation found the type absent, at most once in it, and an operation that
\* is past the lookup with its type still absent has aborted without
\* composing or executing SQL.
C10_State ==
    \A t \in Threads :
        /\ th[t].cbOp <= 1
        /\ th[t].cbOp > 0 => th[t].sawAbsent
        /\ (th[t].op \in TypedOps /\ th[t].cbOp = 1 /\ class_names[th[t].ty] = ""
              /\ th[t].pc \notin {"cb_members", "find2", "check"})
            => /\ th[t].pc = "aborted"
               /\ abort = "ClassNotRegistered"
               /\ th[t].compiled = <<>>
               /\ th[t].calls = <<>>

\* The step part of C10: no step invokes the callback of a registered type.
C10_Step ==
    \A ty \in Types : class_names[ty] # "" => cbCount'[ty] = cbCount[ty]

\* C10: in one thread the callback db_cls_reflect is invoked only by an
\* operation that finds T absent, at most once per operation, never once T is
\* registered; if T is still absent after it the operation aborts.
C10_ReflectOnlyWhenAbsent == []C10_State /\ [][C10_Step]_vars

C10_Witness ==
    /\ abort = "ClassNotRegistered"
    /\ th[1].ty = "NoReflect"
    /\ th[1].cbOp = 1
    /\ class_names["User"] = "User"
    /\ cbCount["User"] = 1

\* C11: when the compiler returns empty text for sum, average or count the
\* operation returns an absent value without calling the engine and without
\* aborting; only a result column without a member is fatal.
C11_EmptySqlRecoverable ==
    \A t \in Threads :
        (th[t].op \in AggOps /\ th[t].compiled = <<"">>)
            => /\ th[t].pc = "done"
               /\ th[t].ret = AbsentRet
               /\ th[t].calls = <<>>
               /\ abort = "none"

TxnFns == {"begin_transaction", "commit_transaction", "rollback_transaction"}

\* The state part of C12: no engine call of a typed operation is one of the
\* three transaction functions.
C12_State ==
    \A t \in Threads :
        th[t].op \in TypedOps
            => \A i \in 1..Len(th[t].calls) : th[t].calls[i].fn \notin TxnFns

\* The step part of C12: the transaction state changes only in a step that is
\* a caller's own call of a transaction function.
C12_Step ==
    db'.txn # db.txn
        => \E t \in Threads : th[t].pc = "idle" /\ th'[t].op \in TxnFns

\* C12: no typed operation calls begin_transaction, commit_transaction or
\* rollback_transaction, on success or failure; the transaction state changes
\* only through explicit caller calls.
C12_TransactionsCallerDriven == []C12_State /\ [][C12_Step]_vars

C12_Witness ==
    /\ db.txn = "active"
    /\ \E t \in Threads :
        /\ th[t].op = "insert"
        /\ th[t].pc = "done"
        /\ th[t].resp = "TARO_ERR_FAILED"
        /\ th[t].ret = StatusRet("TARO_ERR_FAILED")

Unconditional(t) ==
    /\ th[t].op \in {"update", "remove"}
    /\ th[t].pc = "done"
    /\ th[t].cond = 0
    /\ db.kind = "table"

\* C14: update and remove called without a condition compile a statement
\* without WHERE and execute it unguarded; when the engine succeeds the
\* operation returns TARO_OK and every existing row is affected: all rows are
\* deleted, or all rows carry the updated value.
C14_EmptyConditionAffectsAll ==
    \A t \in Threads :
        Unconditional(t) =>
            /\ th[t].compiled # <<"">>
                 => /\ th[t].compiled =
                         IF th[t].op = "remove" THEN <<"DELETE FROM " \o th[t].name>>
                         ELSE <<"UPDATE " \o th[t].name \o " SET name = '"
                                  \o th[t].obj.name.v[1] \o "'">>
                    /\ th[t].calls = <<EngineCall("excute_cmd", th[t].compiled[1])>>
            /\ (th[t].calls # <<>> /\ th[t].resp = "TARO_OK")
                 => /\ th[t].ret = StatusRet("TARO_OK")
                    /\ th[t].op = "remove" => db.rows = <<>>
                    /\ th[t].op = "update"
                         => /\ Len(db.rows) = Len(th[t].rowsBefore)
                            /\ \A i \in 1..Len(db.rows) :
                                 /\ db.rows[i].name = Txt(th[t].obj.name.v)
                                 /\ db.rows[i].id = th[t].rowsBefore[i].id

C14_Witness ==
    \E t \in Threads :
        /\ Unconditional(t)
        /\ th[t].op = "remove"
        /\ th[t].resp = "TARO_OK"
        /\ th[t].ret = StatusRet("TARO_OK")
        /\ Len(th[t].rowsBefore) = 2
        /\ db.rows = <<>>

\* C15: a typed query returns as many objects as its cursor holds rows, none
\* for a cursor that reports columns and holds no row.
C15_ObjectsEqualRows ==
    \A t \in Threads :
        QueryReturned(t) => Len(th[t].ret.objs) = Len(th[t].cursor.rows)

\* C16: in a typed query the i-th object depends only on the i-th row and the
\* type's defaults: a field for which the row holds no value is at its
\* default whatever earlier rows held, and equal rows give equal objects.
C16_FreshElementPerRow ==
    \A t \in Threads :
        (QueryReturned(t) /\ Len(th[t].cursor.rows) >= 1) =>
            LET cols == th[t].cursor.cols
                rows == th[t].cursor.rows
                objs == th[t].ret.objs
                N == IF Len(objs) < Len(rows) THEN Len(objs) ELSE Len(rows)
            IN  /\ \A i \in 1..N : \A f \in {"id", "name"} :
                     (\A k \in 1..Len(cols) : cols[k] = f => rows[i][k].isnull)
                         => objs[i][f] = DefaultElement[f]
                /\ \A i, j \in 1..N : rows[i] = rows[j] => objs[i] = objs[j]

C16_Witness ==
    \E t \in Threads :
        /\ QueryReturned(t)
        /\ th[t].cursor.cols = <<"id", "name">>
        /\ th[t].cursor.rows = <<<<Txt(<<"7">>), Txt(<<"4", "2">>)>>, <<NullPtr, NullPtr>>>>
        /\ Len(th[t].ret.objs) = 2
        /\ th[t].ret.objs[1].name.written
        /\ th[t].ret.objs[2] = DefaultElement

\* C17: a thread whose get_cls_info observed a non-empty table name for User
\* goes on with User's complete column list, also while another thread is
\* inside User's registration callback; the assertion on the members holds.
C17_NameImpliesMembers ==
    \A t \in Threads :
        (/\ th[t].ty = "User"
         /\ th[t].op \in InfoOps
         /\ th[t].pc \in {"body", "done", "aborted"}
         /\ th[t].name # "")
            => /\ th[t].members = ReflectMembers("User")
               /\ abort # "NoMembers"

====
